---- MODULE Spec2Model ----
(***************************************************************************)
(* Model of the unsubscribe batch of jsnhff/no-thanks:                     *)
(*   src/src/unsubscribe_agent.py  (UnsubscribeAgent, unsubscribe_from_emails) *)
(*   src/main.py                   (GmailUnsubscriber._process_unsubscribes)   *)
(*   src/src/database.py           (pattern ledger)                            *)
(* Strings are modelled as sequences of tokens, so that prefix tests,      *)
(* replace/split and substring tests are computed and not assumed.         *)
(***************************************************************************)
EXTENDS Integers, Sequences, FiniteSets, TLC

\* ------------------------------------------------------------------ bounds
MaxEmails == 2      \* messages in one batch
MaxLinks  == 2      \* candidate links of one message (mixed lists)
MaxWeb    == 2      \* web links in one batch
MaxMailto == 6      \* length of the longest mailto-only candidate list
MaxHist   == 3      \* ledger outcomes recorded before the prioritizer runs
MaxPrio   == 3      \* web links handed to the prioritizer on its own
MaxHeader == 2      \* bracketed URLs in a List-Unsubscribe header
MaxBody   == 2      \* anchors in a message body
MaxCalls  == 3      \* calls of record_link_pattern_result on the ledger alone
MaxSelectors == 3   \* entries of the list `selectors` that are modelled
MaxConfirm   == 2   \* entries of `confirmation_selectors` that are modelled
MaxAttempts  == 3   \* calls made on the subscriptions table on its own
MaxInbox     == 3   \* messages with unsubscribe links in the mailbox
MaxBatches   == 2   \* batches processed in one run of the scan loop

\* --------------------------------------------------------- candidate links
\* a link is its text cut into tokens
M1     == <<"mailto:", "unsub@a.example">>
M2     == <<"mailto:", "leave@b.example", "?", "cc=", "mailto:", "x@b.example">>
WUnsub == <<"https://", "d1.example", "/", "Unsubscribe">>
WPref  == <<"https://", "d1.example", "/", "preferences", "?", "unsubscribe">>
WOther == <<"https://", "d1.example", "/", "x">>
WSettings == <<"https://", "d2.example", "/", "settings">>
WOptOut   == <<"https://", "d2.example", "/", "optout">>

WebPool    == {WUnsub, WPref}
LinkPool   == {M1} \cup WebPool
PrioPool   == {WUnsub, WPref, WOther, WSettings}

Domains  == {"", "d1.example", "d2.example"}
Patterns == {"unsubscribe", "opt-out", "preferences", "remove", "other"}

\* ------------------------------------------------------------ str helpers
Min(a, b) == IF a < b THEN a ELSE b

\* str.startswith('mailto:')
IsMailto(link) == Len(link) > 0 /\ Head(link) = "mailto:"

\* str.replace(t, '')
RemoveAll(s, t) == SelectSeq(s, LAMBDA x : x # t)

\* str.split(t)[0]
RECURSIVE SplitFirst(_, _)
SplitFirst(s, t) ==
    IF s = <<>> \/ Head(s) = t THEN <<>>
    ELSE <<Head(s)>> \o SplitFirst(Tail(s), t)

\* str.lower() on one token
Lower(tok) ==
    CASE tok = "Unsubscribe" -> "unsubscribe"
      [] tok = "UNSUBSCRIBE" -> "unsubscribe"
      [] tok = "HTTPS://" -> "https://"
      [] tok = "HREF=" -> "href="
      [] OTHER -> tok

\* kw in s.lower()
Has(s, kw) == \E n \in 1..Len(s) : Lower(s[n]) = kw

\* needle occurs in hay as a contiguous run of tokens
Contains(hay, needle) ==
    \E n \in 0..(Len(hay) - Len(needle)) :
        SubSeq(hay, n + 1, n + Len(needle)) = needle

\* urllib.parse.urlparse: netloc and path of a link
Netloc(link) ==
    IF Len(link) >= 2 /\ Head(link) \in {"https://", "http://"}
    THEN link[2] ELSE ""
UrlPath(link) ==
    IF Len(link) >= 2 /\ Head(link) \in {"https://", "http://"}
    THEN SplitFirst(SubSeq(link, 3, Len(link)), "?")
    ELSE SplitFirst(Tail(link), "?")

\* "; ".join(errs)
RECURSIVE Join(_)
Join(errs) ==
    IF errs = <<>> THEN <<>>
    ELSE IF Len(errs) = 1 THEN Head(errs)
    ELSE Head(errs) \o <<"; ">> \o Join(Tail(errs))

\* ------------------------------------------------------------ the ledger
\* unsubscribe_link_patterns: one row per (domain, pattern); row tells
\* whether the row is in the table, s and f are its two counts
Keys == Domains \X Patterns
EmptyLedger == [key \in Keys |-> [row |-> FALSE, s |-> 0, f |-> 0]]

\* the pattern label record_link_pattern_result derives from a link's path
PatternOf(link) ==
    LET path == UrlPath(link) IN
    IF Has(path, "unsubscribe") THEN "unsubscribe"
    ELSE IF Has(path, "opt-out") \/ Has(path, "optout") THEN "opt-out"
    ELSE IF Has(path, "preferences") \/ Has(path, "settings") THEN "preferences"
    ELSE IF Has(path, "remove") THEN "remove"
    ELSE "other"

\* (mutant) a new row inserted with the column defaults, the outcome dropped
RecordLinkPatternResultDefaults(led, link, success) ==
    IF link = <<>> THEN led
    ELSE LET key == <<Netloc(link), PatternOf(link)>> IN
         IF led[key].row
         THEN IF success
              THEN [led EXCEPT ![key].s = @ + 1]
              ELSE [led EXCEPT ![key].f = @ + 1]
         ELSE [led EXCEPT ![key] = [row |-> TRUE, s |-> 0, f |-> 0]]

\* record_link_pattern_result, the write succeeding: UPDATE of the row the
\* SELECT found, or INSERT of a new row
RecordLinkPatternResult(led, link, success) ==
    IF link = <<>> THEN led
    ELSE LET key == <<Netloc(link), PatternOf(link)>> IN
         IF led[key].row
         THEN IF success
              THEN [led EXCEPT ![key].s = @ + 1]
              ELSE [led EXCEPT ![key].f = @ + 1]
         ELSE [led EXCEPT ![key] = [row |-> TRUE,
                                    s |-> IF success THEN 1 ELSE 0,
                                    f |-> IF success THEN 0 ELSE 1]]

\* ORDER BY success_rate DESC, success_count DESC: row a sorts strictly
\* before row b
RanksBefore(led, d, a, b) ==
    LET ra == led[<<d, a>>]
        rb == led[<<d, b>>]
        lhs == ra.s * (rb.s + rb.f)
        rhs == rb.s * (ra.s + ra.f)
    IN  lhs > rhs \/ (lhs = rhs /\ ra.s > rb.s)

\* (mutant) the query without its threshold of 2 attempts
QualifyingAny(led, d) ==
    {p \in Patterns : /\ d \in Domains
                      /\ led[<<d, p>>].row
                      /\ led[<<d, p>>].s + led[<<d, p>>].f >= 1}

\* get_best_link_patterns_for_domain: the rows of the domain with at least
\* 2 attempts, in any order the ORDER BY clause allows
Qualifying(led, d) ==
    {p \in Patterns : /\ d \in Domains
                      /\ led[<<d, p>>].row
                      /\ led[<<d, p>>].s + led[<<d, p>>].f >= 2}
BestPatternLists(led, d) ==
    LET Q == IF d \in Domains THEN Qualifying(led, d) ELSE {}
        n == Cardinality(Q)
    IN  {b \in [1..n -> Q] :
            /\ \A x, y \in 1..n : x # y => b[x] # b[y]
            /\ \A x, y \in 1..n : x < y => ~RanksBefore(led, d, b[y], b[x])}

\* ------------------------------------------------------- the prioritizer
\* the first learned pattern that matches, as the enumerate loop finds it
FirstMatch(path, best) ==
    LET hits == {n \in 1..Len(best) : Has(path, best[n]) \/ best[n] = "other"}
    IN  IF hits = {} THEN 0
        ELSE CHOOSE n \in hits : \A m \in hits : n <= m

StaticPriority(path) ==
    IF Has(path, "unsubscribe") THEN 5
    ELSE IF Has(path, "opt-out") \/ Has(path, "optout") THEN 4
    ELSE IF Has(path, "preferences") THEN 3
    ELSE 2

\* the priority of one web link; q is what the ledger query for the link
\* gave: q.err when parsing the link or querying the ledger raised, else
\* q.best is the learned pattern list
LinkPriority(link, q) ==
    IF q.err THEN 1
    ELSE LET path == UrlPath(link)
             n == FirstMatch(path, q.best)
         IN  IF n # 0 THEN Len(q.best) - (n - 1) + 10
             ELSE StaticPriority(path)

\* (mutant) an insertion that puts an item before the items of equal priority
RECURSIVE InsertBeforeEqual(_, _)
InsertBeforeEqual(sorted, item) ==
    IF sorted = <<>> THEN <<item>>
    ELSE IF Head(sorted).priority > item.priority
         THEN <<Head(sorted)>> \o InsertBeforeEqual(Tail(sorted), item)
         ELSE <<item>> \o sorted

\* list.sort(key=priority, reverse=True): stable, highest first
RECURSIVE InsertDesc(_, _)
InsertDesc(sorted, item) ==
    IF sorted = <<>> THEN <<item>>
    ELSE IF Head(sorted).priority >= item.priority
         THEN <<Head(sorted)>> \o InsertDesc(Tail(sorted), item)
         ELSE <<item>> \o sorted
RECURSIVE SortDesc(_)
SortDesc(pairs) ==
    IF pairs = <<>> THEN <<>>
    ELSE InsertDesc(SortDesc(SubSeq(pairs, 1, Len(pairs) - 1)), pairs[Len(pairs)])

\* (mutant) a link whose parsing or query raised is left out
LinkPrioritiesDropErrors(links, qs) ==
    SelectSeq([n \in 1..Len(links) |->
                  [link |-> links[n], priority |-> LinkPriority(links[n], qs[n]),
                   pos |-> n, q |-> qs[n]]],
              LAMBDA e : ~e.q.err)

\* link_priorities before the sort; qs[n] is what the ledger query for the
\* n-th web link gave
LinkPriorities(links, qs) ==
    [n \in 1..Len(links) |->
        [link |-> links[n], priority |-> LinkPriority(links[n], qs[n]), pos |-> n,
         q |-> qs[n]]]

\* what the ledger query for one link can give
QueryAnswers(led, link) ==
    {[err |-> TRUE, best |-> <<>>]} \cup
    {[err |-> FALSE, best |-> b] : b \in BestPatternLists(led, Netloc(link))}

\* what the queries for a list of web links can give
QueryResults(led, links) ==
    {qs \in [1..Len(links) -> UNION {QueryAnswers(led, links[n]) : n \in 1..Len(links)}] :
        \A n \in 1..Len(links) : qs[n] \in QueryAnswers(led, links[n])}

\* -------------------------------------------------------------- messages
\* _process_mailto_link: the address named in the manual-action message
MailtoAddress(link) == SplitFirst(RemoveAll(link, "mailto:"), "?")
MailtoMessage(link) ==
    <<"mailto link (requires manual email to ">> \o MailtoAddress(link) \o <<")">>

\* (mutant) the summary without its cap
AllReasons(errs) == errs

\* attempt_errors[:5]
FirstFive(errs) == SubSeq(errs, 1, Min(5, Len(errs)))

\* the message of a message whose links all failed
FailureMessage(n, errs) ==
    <<"All ", ToString(n), " attempts failed: ">> \o Join(FirstFive(errs))

\* exceptions of the page calls: whether one was raised, whether it is a
\* PlaywrightTimeoutError, and str(e)
NoException == [raised |-> FALSE, timeout |-> FALSE, text |-> ""]
TimeoutError ==
    [raised |-> TRUE, timeout |-> TRUE, text |-> "Timeout 30000ms exceeded."]
TargetClosed ==
    [raised |-> TRUE, timeout |-> FALSE, text |-> "Target closed"]
NameNotResolved ==
    [raised |-> TRUE, timeout |-> FALSE,
     text |-> "net::ERR_NAME_NOT_RESOLVED at https://d1.example/Unsubscribe"
              \o " =========================== logs ==========================="
              \o " navigating to https://d1.example/Unsubscribe"]
GotoExceptions == {TimeoutError, NameNotResolved}

\* (mutant) the error message with the whole error text
ErrorMessageUncut(text) == <<"Error: ", text>>

\* f"Error: {str(e)[:100]}"
ErrorMessage(text) == <<"Error: ", SubSeq(text, 1, Min(100, Len(text)))>>

\* page texts the third-party page can show, and the two phrase lists
PageTexts == {"no longer receive", "sorry to see you go", "click to unsubscribe"}
IsAlreadyUnsubscribed(content) ==
    content \in {"already unsubscribed", "you have been unsubscribed",
                 "successfully unsubscribed", "removed from list",
                 "no longer receive"}
IsUnsubscribeSuccessful(content) ==
    content \in {"successfully unsubscribed", "you have been unsubscribed",
                 "removed from list", "no longer receive",
                 "sorry to see you go", "all set", "done"}

\* ------------------------------------------------------ the link extractor
\* URLs a message can carry; "&amp;" and "&#38;" are HTML entities for "&"
HEsc    == <<"https://", "a.example", "/u", "?", "a=1", "&amp;", "b=2">>
HPlain  == <<"https://", "a.example", "/u", "?", "a=1", "&", "b=2">>
HNum    == <<"https://", "a.example", "/u", "?", "a=1", "&#38;", "b=2">>
HHttp   == <<"http://", "b.example", "/", "unsubscribe">>
BOptOut == <<"https://", "d1.example", "/", "opt-out">>
BUpper  == <<"HTTPS://", "d1.example", "/", "unsubscribe">>
BHome   == <<"https://", "d1.example", "/", "home">>

HeaderPool == {HEsc, HPlain, HNum, HHttp, M1}
BodyPool   == {WUnsub, WPref, BOptOut, BUpper, BHome, HHttp, HEsc}

\* the text of a List-Unsubscribe header listing the given URLs
RECURSIVE HeaderText(_)
HeaderText(urls) ==
    IF urls = <<>> THEN <<>>
    ELSE <<"<">> \o Head(urls) \o <<">">>
         \o (IF Len(urls) > 1 THEN <<", ">> ELSE <<>>) \o HeaderText(Tail(urls))

\* the text of an HTML body with one anchor per URL
RECURSIVE BodyText(_)
BodyText(urls) ==
    IF urls = <<>> THEN <<>>
    ELSE <<"<a ", "href=", "'">> \o Head(urls) \o <<"'", ">", "link", "</a>">>
         \o BodyText(Tail(urls))

\* re.findall(r'<(https?://[^>]+)>', list_unsubscribe)
RECURSIVE HeaderLinks(_)
HeaderLinks(text) ==
    IF text = <<>> THEN <<>>
    ELSE IF Head(text) # "<" THEN HeaderLinks(Tail(text))
    ELSE LET rest  == Tail(text)
             inner == SplitFirst(rest, ">")
         IN  IF /\ Len(inner) < Len(rest)
                /\ Len(inner) >= 2
                /\ Head(inner) \in {"http://", "https://"}
             THEN <<inner>> \o HeaderLinks(SubSeq(rest, Len(inner) + 2, Len(rest)))
             ELSE HeaderLinks(rest)

\* re.findall(r'href=["\'](https?://[^"\']*TOKEN[^"\']*)["\']', body,
\* re.IGNORECASE) for one token
RECURSIVE HrefLinks(_, _)
HrefLinks(text, token) ==
    IF Len(text) < 2 THEN <<>>
    ELSE IF ~(Lower(text[1]) = "href=" /\ text[2] = "'")
    THEN HrefLinks(Tail(text), token)
    ELSE LET rest  == SubSeq(text, 3, Len(text))
             inner == SplitFirst(rest, "'")
         IN  IF /\ Len(inner) < Len(rest)
                /\ Len(inner) >= 2
                /\ Lower(Head(inner)) \in {"http://", "https://"}
                /\ Has(Tail(inner), token)
             THEN <<inner>> \o HrefLinks(SubSeq(rest, Len(inner) + 2, Len(rest)),
                                         token)
             ELSE HrefLinks(Tail(text), token)

\* the three body patterns, in the order of the list `patterns`
BodyTokens == <<"unsubscribe", "opt-out", "preferences">>
BodyLinks(text) ==
    HrefLinks(text, BodyTokens[1]) \o HrefLinks(text, BodyTokens[2])
    \o HrefLinks(text, BodyTokens[3])

\* link.replace('&amp;', '&')
Unescape(link) ==
    [n \in 1..Len(link) |-> IF link[n] = "&amp;" THEN "&" ELSE link[n]]

\* link.startswith('http')
StartsWithHttp(link) == link # <<>> /\ Head(link) \in {"http://", "https://"}

\* the loop over links that fills unique_links
RECURSIVE UniqueLinks(_, _)
UniqueLinks(links, unique) ==
    IF links = <<>> THEN unique
    ELSE LET link == Unescape(Head(links)) IN
         IF (\A n \in 1..Len(unique) : unique[n] # link) /\ StartsWithHttp(link)
         THEN UniqueLinks(Tail(links), Append(unique, link))
         ELSE UniqueLinks(Tail(links), unique)

\* _find_unsubscribe_links(body, list_unsubscribe)
FindUnsubscribeLinks(text, header) ==
    UniqueLinks((IF header # <<>> THEN HeaderLinks(header) ELSE <<>>)
                \o (IF text # <<>> THEN BodyLinks(text) ELSE <<>>), <<>>)

\* --------------------------------------------------------- batch inputs
\* n mailto links, the last one with another address than the others
MailtoRun(n) == [m \in 1..n |-> IF m = n THEN M2 ELSE M1]

LinkLists == UNION {[1..n -> LinkPool] : n \in 0..MaxLinks}

WebCount(links) == Cardinality({n \in 1..Len(links) : ~IsMailto(links[n])})
RECURSIVE SumWeb(_)
SumWeb(lists) ==
    IF lists = <<>> THEN 0 ELSE WebCount(Head(lists)) + SumWeb(Tail(lists))

\* batches of short mixed lists, and batches of one long mailto-only list
Batches ==
    {b \in UNION {[1..n -> LinkLists] : n \in 0..MaxEmails} : SumWeb(b) <= MaxWeb}
    \cup {<<MailtoRun(n)>> : n \in 1..MaxMailto}

\* ----------------------------------------------------------------- state
VARIABLES
    emails,           \* the batch input: email dicts (id, unsubscribe_links)
    db,               \* whether a database handle is passed to the batch
    ledger,           \* unsubscribe_link_patterns
    pc,               \* position of the batch coroutine
    playwright,       \* the automation driver: "none", "running", "stopped"
    browser,          \* the browser: "none", "running", "closed"
    contexts,         \* number of open browsing contexts
    i,                \* index of the message being processed
    results,          \* results of unsubscribe_from_emails
    mailto_links,     \* locals of unsubscribe_from_email
    web_links,
    link_priorities,
    k,                \* index of the link being attempted
    attempt_errors,
    wait,             \* the wait strategy page.goto is called with (1..3)
    page_content,     \* what page.content() returned after the navigation
    raising,          \* what is propagating out of the batch: "none", ...
    attempts,         \* history: every link attempt made, in order
    j,                \* index of the result being recorded by the caller
    attempt_records,  \* unsubscribe_attempts rows written by the caller
    ledger_calls,     \* history: record_link_pattern_result calls made
    list_unsubscribe, \* the List-Unsubscribe header value of a message
    body,             \* the decoded body of a message
    unique_links,     \* what _find_unsubscribe_links returned
    mail,             \* history: the URLs the header and the body were built from
    subscriptions,    \* subscriptions rows, in id order
    clock,            \* what datetime.now() returns next
    selector,         \* index of the selector _find_and_click_unsubscribe tries
    conf_selector,    \* index of the confirmation selector tried (0: none)
    events,           \* history: what each selector tried led to
    messages,         \* run(): the message ids the last scan listed
    approved_emails,  \* run(): what display_emails returned
    batches           \* history: the id lists passed to _process_unsubscribes

vars == <<emails, db, ledger, pc, playwright, browser, contexts, i, results,
          mailto_links, web_links, link_priorities, k, attempt_errors, wait,
          page_content, raising, attempts, j, attempt_records, ledger_calls,
          list_unsubscribe, body, unique_links, mail, subscriptions, clock,
          selector, conf_selector, events, messages, approved_emails,
          batches>>

engineVars == <<playwright, browser>>
msgVars    == <<mailto_links, web_links, link_priorities, k, attempt_errors>>
bookVars   == <<j, attempt_records, ledger_calls, ledger, subscriptions, clock>>
mailVars   == <<list_unsubscribe, body, unique_links, mail>>
findVars   == <<selector, conf_selector, events>>
scanVars   == <<messages, approved_emails, batches>>
\* the variables of the parts that are also run on their own
soloVars   == <<mailVars, findVars, scanVars>>

\* no message is being parsed
NoMail ==
    /\ list_unsubscribe = <<>>
    /\ body = <<>>
    /\ unique_links = <<>>
    /\ mail = [header |-> <<>>, anchors |-> <<>>]

\* no control search is running
NoFind ==
    /\ selector = 1
    /\ conf_selector = 0
    /\ events = <<>>

\* the scan loop is not running
NoScan ==
    /\ messages = <<>>
    /\ approved_emails = <<>>
    /\ batches = <<>>

\* an empty database, apart from the ledger
NoRows ==
    /\ attempt_records = <<>>
    /\ subscriptions = <<>>
    /\ clock = 1

\* the From headers a message can carry: a display name with the address in
\* angle brackets, or a bare address
FromNews  == <<"News", " <", "news@d1.example", ">">>
FromShop  == <<"shop@d2.example">>
FromPool  == {FromNews, FromShop}

\* email.utils.parseaddr: (display name, address)
ParseAddr(from) ==
    IF Len(from) = 4 /\ from[2] = " <" /\ from[4] = ">"
    THEN [name |-> from[1], address |-> from[3]]
    ELSE [name |-> "", address |-> from[1]]

\* the senders of a batch of n messages: the first message is a newsletter,
\* the later ones come from the same sender or from another one
Froms(n) == {f \in [1..n -> FromPool] : n > 0 => f[1] = FromNews}

Init ==
    /\ \E b \in Batches : \E f \in Froms(Len(b)) :
          emails = [n \in 1..Len(b) |->
                       [id |-> n, from |-> f[n], unsubscribe_links |-> b[n]]]
    /\ db \in BOOLEAN
    /\ ledger = EmptyLedger
    /\ pc = "start"
    /\ playwright = "none"
    /\ browser = "none"
    /\ contexts = 0
    /\ i = 1
    /\ results = <<>>
    /\ mailto_links = <<>>
    /\ web_links = <<>>
    /\ link_priorities = <<>>
    /\ k = 1
    /\ attempt_errors = <<>>
    /\ wait = 1
    /\ page_content = ""
    /\ raising = "none"
    /\ attempts = <<>>
    /\ j = 1
    /\ NoRows
    /\ ledger_calls = <<>>
    /\ NoMail
    /\ NoFind
    /\ NoScan

\* ------------------------------------------------- engine start (__aenter__)
\* async_playwright().start()
StartPlaywright ==
    /\ pc = "start"
    /\ \/ /\ playwright' = "running"
          /\ pc' = "launch"
          /\ UNCHANGED raising
       \/ /\ raising' = "start"
          /\ pc' = "raised"
          /\ UNCHANGED playwright
    /\ UNCHANGED <<soloVars, emails, db, browser, contexts, i, results,
                   msgVars, wait, page_content, attempts, bookVars>>

\* playwright.chromium.launch(); when it raises, __aexit__ is not run
LaunchBrowser ==
    /\ pc = "launch"
    /\ \/ /\ browser' = "running"
          /\ pc' = "loop"
          /\ UNCHANGED raising
       \/ /\ raising' = "start"
          /\ pc' = "raised"
          /\ UNCHANGED browser
    /\ UNCHANGED <<soloVars, emails, db, playwright, contexts, i, results,
                   msgVars, wait, page_content, attempts, bookVars>>

\* ------------------------------------------- unsubscribe_from_email (start)
\* unsubscribe_from_email returns: its locals are gone
Return ==
    /\ mailto_links' = <<>>
    /\ web_links' = <<>>
    /\ link_priorities' = <<>>
    /\ attempt_errors' = <<>>
    /\ k' = 1

\* the two list comprehensions that split the candidate list
MailtoLinksOf(links) == SelectSeq(links, IsMailto)
\* (mutant) the web list not filtered
WebLinksOfUnfiltered(links) == links
WebLinksOf(links) == SelectSeq(links, LAMBDA l : ~IsMailto(l))

\* the for loop of unsubscribe_from_emails picks the next message and
\* unsubscribe_from_email starts on it
NextMessage ==
    /\ pc = "loop"
    /\ i <= Len(emails)
    /\ LET links == emails[i].unsubscribe_links IN
       IF links = <<>>
       THEN /\ results' = Append(results,
                   [email |-> emails[i], success |-> FALSE,
                    message |-> <<"No unsubscribe links found">>])
            /\ i' = i + 1
            /\ UNCHANGED <<pc, msgVars>>
       ELSE /\ mailto_links' = MailtoLinksOf(links)
            /\ web_links' = WebLinksOf(links)
            /\ attempt_errors' = <<>>
            /\ link_priorities' = <<>>
            /\ k' = 1
            /\ pc' = "mailto"
            /\ UNCHANGED <<i, results>>
    /\ UNCHANGED <<soloVars, emails, db, engineVars, contexts, wait,
                   page_content, raising, attempts, bookVars>>

\* (mutant) a mailto link reported as done
ProcessMailtoLinkSucceeds(link) == [success |-> TRUE, message |-> MailtoMessage(link)]

\* _process_mailto_link
ProcessMailtoLink(link) == [success |-> FALSE, message |-> MailtoMessage(link)]

\* one iteration of the mailto loop
MailtoAttempt ==
    /\ pc = "mailto"
    /\ k <= Len(mailto_links)
    /\ LET r == ProcessMailtoLink(mailto_links[k]) IN
       /\ attempts' = Append(attempts,
              [email |-> i, link |-> mailto_links[k], success |-> r.success,
               message |-> r.message, via |-> "mailto",
               at |-> pc, content |-> "", exc |-> NoException])
       /\ IF r.success
          THEN /\ results' = Append(results,
                      [email |-> emails[i], success |-> TRUE, message |-> r.message])
               /\ i' = i + 1
               /\ pc' = "loop"
               /\ Return
          ELSE /\ attempt_errors' = Append(attempt_errors, <<"mailto: ">> \o r.message)
               /\ k' = k + 1
               /\ UNCHANGED <<i, results, pc, mailto_links, web_links,
                              link_priorities>>
    /\ UNCHANGED <<soloVars, emails, db, engineVars, contexts, wait,
                   page_content, raising, bookVars>>

\* the web links in the order the sort leaves them
Prioritized(links, qs) ==
    LET sorted == SortDesc(LinkPriorities(links, qs))
    IN  [n \in 1..Len(sorted) |-> sorted[n].link]

\* after the mailto loop: sort the web links when a database is passed
Prioritize ==
    /\ pc = "mailto"
    /\ k > Len(mailto_links)
    /\ IF db /\ web_links # <<>>
       THEN \E qs \in QueryResults(ledger, web_links) :
               /\ link_priorities' = SortDesc(LinkPriorities(web_links, qs))
               /\ web_links' = Prioritized(web_links, qs)
       ELSE UNCHANGED <<web_links, link_priorities>>
    /\ k' = 1
    /\ pc' = "web"
    /\ UNCHANGED <<soloVars, emails, db, engineVars, contexts, i, results,
                   mailto_links, attempt_errors, wait, page_content, raising,
                   attempts, bookVars>>

\* every link failed: the failure result of the message
AllFailed ==
    /\ pc = "web"
    /\ k > Len(web_links)
    /\ results' = Append(results,
           [email |-> emails[i], success |-> FALSE,
            message |-> FailureMessage(Len(mailto_links) + Len(web_links),
                                       attempt_errors)])
    /\ i' = i + 1
    /\ pc' = "loop"
    /\ Return
    /\ UNCHANGED <<soloVars, emails, db, engineVars, contexts, wait,
                   page_content, raising, attempts, bookVars>>

\* --------------------------------------------- _process_unsubscribe_link
\* (mutant) the web loop without its early return: a success is noted and
\* the next link is tried
WebAttemptReturnsNoStop(success, message, content, exc) ==
    /\ contexts' = contexts - 1
    /\ attempts' = Append(attempts,
           [email |-> i, link |-> web_links[k], success |-> success,
            message |-> message, via |-> "browser", at |-> pc,
            content |-> content, exc |-> exc])
    /\ wait' = 1
    /\ page_content' = ""
    /\ attempt_errors' = Append(attempt_errors,
           <<"Link ", ToString(k), "/", ToString(Len(web_links)), ": ">> \o message)
    /\ k' = k + 1
    /\ pc' = "web"
    /\ UNCHANGED <<i, results, mailto_links, web_links, link_priorities>>
    /\ UNCHANGED <<soloVars, emails, db, engineVars, raising, bookVars>>

\* the link attempt returned (success, message): finally closes the context,
\* then the web loop returns the success or notes the failure
WebAttemptReturns(success, message, content, exc) ==
    /\ contexts' = contexts - 1
    /\ attempts' = Append(attempts,
           [email |-> i, link |-> web_links[k], success |-> success,
            message |-> message, via |-> "browser", at |-> pc,
            content |-> content, exc |-> exc])
    /\ wait' = 1
    /\ page_content' = ""
    /\ IF success
       THEN /\ results' = Append(results,
                   [email |-> emails[i], success |-> TRUE, message |-> message])
            /\ i' = i + 1
            /\ pc' = "loop"
            /\ Return
       ELSE /\ attempt_errors' = Append(attempt_errors,
                   <<"Link ", ToString(k), "/", ToString(Len(web_links)), ": ">>
                   \o message)
            /\ k' = k + 1
            /\ pc' = "web"
            /\ UNCHANGED <<i, results, mailto_links, web_links,
                           link_priorities>>
    /\ UNCHANGED <<soloVars, emails, db, engineVars, raising, bookVars>>

\* the except clauses of the link attempt: the exception becomes a failure
Except(exc) ==
    IF exc.timeout
    THEN WebAttemptReturns(FALSE, <<"Page load timeout">>, "", exc)
    ELSE WebAttemptReturns(FALSE, ErrorMessage(exc.text), "", exc)

\* (mutant) an exception of a link attempt that the web loop does not catch
WebAttemptPropagates(text) ==
    /\ attempts' = Append(attempts,
           [email |-> i, link |-> web_links[k], success |-> FALSE,
            message |-> text, via |-> "browser", at |-> pc,
            content |-> "",
            exc |-> [raised |-> TRUE, timeout |-> FALSE, text |-> text[1]]])
    /\ raising' = "link"
    /\ pc' = "exit"
    /\ wait' = 1
    /\ page_content' = ""
    /\ Return
    /\ UNCHANGED <<soloVars, emails, db, engineVars, i, results, bookVars>>

\* the link attempt raised before its try block: nothing closes a context,
\* the web loop notes the exception and goes on
WebAttemptRaises(text) ==
    /\ attempts' = Append(attempts,
           [email |-> i, link |-> web_links[k], success |-> FALSE,
            message |-> text, via |-> "browser", at |-> pc,
            content |-> "",
            exc |-> [raised |-> TRUE, timeout |-> FALSE, text |-> text[1]]])
    /\ attempt_errors' = Append(attempt_errors,
           <<"Link ", ToString(k), "/", ToString(Len(web_links)), " exception: ">>
           \o text)
    /\ k' = k + 1
    /\ pc' = "web"
    /\ wait' = 1
    /\ page_content' = ""
    /\ UNCHANGED <<soloVars, emails, db, engineVars, i, results, mailto_links,
                   web_links, link_priorities, raising, bookVars>>

\* browser.new_context(...)
NewContext ==
    /\ pc = "web"
    /\ k <= Len(web_links)
    /\ \/ /\ contexts' = contexts + 1
          /\ pc' = "page"
          /\ UNCHANGED <<soloVars, emails, db, engineVars, i, results, msgVars,
                         wait, page_content, raising, attempts, bookVars>>
       \/ /\ WebAttemptRaises(<<"new_context failed">>)
          /\ UNCHANGED contexts

\* context.new_page(), outside the try block
NewPage ==
    /\ pc = "page"
    /\ \/ /\ pc' = "goto"
          /\ wait' = 1
          /\ page_content' = ""
          /\ UNCHANGED <<soloVars, emails, db, engineVars, contexts, i,
                         results, msgVars, raising, attempts, bookVars>>
       \/ /\ WebAttemptRaises(<<"new_page failed">>)
          /\ UNCHANGED contexts

\* the wait_until values of the three page.goto calls, in the order tried
WaitUntil == <<"networkidle", "load", "domcontentloaded">>

\* (mutant) navigation without fallbacks: the first failure ends the attempt
GotoOnce ==
    /\ pc = "goto"
    /\ \E outcome \in {NoException} \cup GotoExceptions :
          IF ~outcome.raised
          THEN /\ pc' = "content"
               /\ UNCHANGED <<soloVars, emails, db, engineVars, contexts, i,
                              results, msgVars, wait, page_content, raising,
                              attempts, bookVars>>
          ELSE Except(outcome)

\* page.goto with wait strategy 1 (networkidle), 2 (load), 3 (domcontentloaded)
Goto ==
    /\ pc = "goto"
    /\ \E outcome \in {NoException} \cup GotoExceptions :
          IF ~outcome.raised
          THEN /\ pc' = "content"
               /\ UNCHANGED <<soloVars, emails, db, engineVars, contexts, i,
                              results, msgVars, wait, page_content, raising,
                              attempts, bookVars>>
          ELSE IF wait < 3
          THEN /\ wait' = wait + 1
               /\ UNCHANGED <<soloVars, emails, db, engineVars, contexts, i,
                              results, msgVars, pc, page_content, raising,
                              attempts, bookVars>>
          ELSE Except(outcome)

\* (mutant) the control search made whatever the page says
ContentAlwaysSearches ==
    /\ pc = "content"
    /\ \/ \E content \in PageTexts :
             /\ pc' = "find"
             /\ page_content' = content
             /\ UNCHANGED <<soloVars, emails, db, engineVars, contexts, i,
                            results, msgVars, wait, raising, attempts,
                            bookVars>>
       \/ Except(TargetClosed)

\* page.content() and the already-unsubscribed check
Content ==
    /\ pc = "content"
    /\ \/ \E content \in PageTexts :
             IF IsAlreadyUnsubscribed(content)
             THEN WebAttemptReturns(TRUE, <<"Already unsubscribed">>, content,
                                    NoException)
             ELSE /\ pc' = "find"
                  /\ page_content' = content
                  /\ UNCHANGED <<soloVars, emails, db, engineVars, contexts, i,
                                 results, msgVars, wait, raising, attempts,
                                 bookVars>>
       \/ Except(TargetClosed)

\* _find_and_click_unsubscribe: a control is clicked or none is found
FindAndClick ==
    /\ pc = "find"
    /\ \E clicked \in BOOLEAN :
          IF clicked
          THEN /\ pc' = "confirm"
               /\ UNCHANGED <<soloVars, emails, db, engineVars, contexts, i,
                              results, msgVars, wait, page_content, raising,
                              attempts, bookVars>>
          ELSE WebAttemptReturns(FALSE, <<"Could not find unsubscribe button">>,
                                 "", NoException)

\* (mutant) a click without a success phrase reported as a failure
ConfirmRequiresPhrase ==
    /\ pc = "confirm"
    /\ \/ \E content \in PageTexts :
             IF IsUnsubscribeSuccessful(content)
             THEN WebAttemptReturns(TRUE, <<"Successfully unsubscribed">>,
                                    content, NoException)
             ELSE WebAttemptReturns(FALSE,
                      <<"Clicked unsubscribe (confirmation uncertain)">>,
                      content, NoException)
       \/ Except(TargetClosed)

\* after a click: page.content() and the success-phrase check
Confirm ==
    /\ pc = "confirm"
    /\ \/ \E content \in PageTexts :
             IF IsUnsubscribeSuccessful(content)
             THEN WebAttemptReturns(TRUE, <<"Successfully unsubscribed">>,
                                    content, NoException)
             ELSE WebAttemptReturns(TRUE,
                      <<"Clicked unsubscribe (confirmation uncertain)">>,
                      content, NoException)
       \/ Except(TargetClosed)

\* a cancellation (asyncio.CancelledError, KeyboardInterrupt) at an await of
\* the link attempt: no except clause of the batch catches it; inside the
\* try block the finally clause still closes the context
Interrupt ==
    /\ pc \in {"page", "content", "confirm"}
    /\ contexts' = IF pc = "page" THEN contexts ELSE contexts - 1
    /\ raising' = "interrupt"
    /\ pc' = "exit"
    /\ wait' = 1
    /\ page_content' = ""
    /\ Return
    /\ UNCHANGED <<soloVars, emails, db, engineVars, i, results, attempts,
                   bookVars>>

\* ------------------------------------------------- engine stop (__aexit__)
\* the for loop of unsubscribe_from_emails is exhausted
BatchEnd ==
    /\ pc = "loop"
    /\ i > Len(emails)
    /\ pc' = "exit"
    /\ UNCHANGED <<soloVars, emails, db, engineVars, contexts, i, results,
                   msgVars, wait, page_content, raising, attempts, bookVars>>

\* (mutant) a batch that hands the results it has to the caller when it
\* raises
AExitReturnsPartial ==
    /\ pc = "exit"
    /\ browser' = IF browser = "running" THEN "closed" ELSE browser
    /\ playwright' = IF playwright = "running" THEN "stopped" ELSE playwright
    /\ contexts' = 0
    /\ pc' = IF db THEN "book" ELSE "done"
    /\ UNCHANGED <<soloVars, emails, db, i, results, msgVars, wait,
                   page_content, raising, attempts, bookVars>>

\* __aexit__: browser.close() (which closes its contexts), playwright.stop();
\* then the batch returns its results or re-raises
AExit ==
    /\ pc = "exit"
    /\ browser' = IF browser = "running" THEN "closed" ELSE browser
    /\ playwright' = IF playwright = "running" THEN "stopped" ELSE playwright
    /\ contexts' = 0
    /\ pc' = IF raising # "none" THEN "raised"
             ELSE IF db THEN "book" ELSE "done"
    /\ UNCHANGED <<soloVars, emails, db, i, results, msgVars, wait,
                   page_content, raising, attempts, bookVars>>

\* ------------------------------------- _process_unsubscribes (bookkeeping)
\* SELECT id FROM subscriptions WHERE sender_address = ?
Known(subs, address) ==
    {n \in 1..Len(subs) : subs[n].sender_address = address}

\* add_subscription: the id of the row of the sender, inserted when missing
\* with the column defaults (status 'active', no unsubscribed date: 0)
SubscriptionId(subs, address) ==
    IF Known(subs, address) # {}
    THEN CHOOSE n \in Known(subs, address) : TRUE
    ELSE Len(subs) + 1
AddSubscription(subs, address, name, now) ==
    IF Known(subs, address) # {}
    THEN subs
    ELSE Append(subs, [sender_address |-> address, sender_name |-> name,
                       first_seen_date |-> now, unsubscribed_date |-> 0,
                       unsubscribe_status |-> "active"])

\* (mutant) the status written from the outcome of every attempt
UpdateSubscriptionAlways(subs, id, success, now) ==
    [n \in 1..Len(subs) |->
        IF n = id
        THEN [subs[n] EXCEPT !.unsubscribed_date = now,
                             !.unsubscribe_status =
                                 IF success THEN "unsubscribed" ELSE "active"]
        ELSE subs[n]]

\* record_unsubscribe_attempt, the UPDATE of subscriptions made on a success
UpdateSubscription(subs, id, success, now) ==
    IF success
    THEN [n \in 1..Len(subs) |->
             IF n = id
             THEN [subs[n] EXCEPT !.unsubscribed_date = now,
                                  !.unsubscribe_status = "unsubscribed"]
             ELSE subs[n]]
    ELSE subs

\* record_unsubscribe_attempt, the row inserted into unsubscribe_attempts
AttemptRow(id, email_id, link, success, message, now) ==
    [subscription_id |-> id, email_id |-> email_id, attempt_date |-> now,
     unsubscribe_link |-> link, success |-> success, message |-> message]

\* the two database calls made for one result: add_subscription, then
\* record_unsubscribe_attempt; datetime.now() is read once in each; st holds
\* the two tables and the clock
BookOne(st, r, link) ==
    LET sender == ParseAddr(r.email.from)
        id     == SubscriptionId(st.subs, sender.address)
        added  == AddSubscription(st.subs, sender.address, sender.name,
                                  st.clock)
    IN  [records |-> Append(st.records,
                        AttemptRow(id, r.email.id, link, r.success, r.message,
                                   st.clock + 1)),
         subs    |-> UpdateSubscription(added, id, r.success, st.clock + 1),
         clock   |-> st.clock + 2]
RecordAttempt(r, link) ==
    LET st == BookOne([records |-> attempt_records, subs |-> subscriptions,
                       clock |-> clock], r, link)
    IN  /\ attempt_records' = st.records
        /\ subscriptions' = st.subs
        /\ clock' = st.clock

\* email['unsubscribe_links'][0] if email['unsubscribe_links'] else ''
FirstLink(email) ==
    IF email.unsubscribe_links # <<>> THEN email.unsubscribe_links[1] ELSE <<>>

\* record_link_pattern_result called by the bookkeeping loop: nothing is
\* done for an empty link; otherwise the row is written, or the write fails
\* and the exception is swallowed (written = FALSE)
RecordLinkPatternCall(id, link, success) ==
    IF link = <<>>
    THEN UNCHANGED <<ledger, ledger_calls>>
    ELSE \E written \in BOOLEAN :
            /\ ledger' = IF written
                         THEN RecordLinkPatternResult(ledger, link, success)
                         ELSE ledger
            /\ ledger_calls' = Append(ledger_calls,
                   [email_id |-> id, link |-> link, domain |-> Netloc(link),
                    pattern |-> PatternOf(link), success |-> success,
                    written |-> written])

\* (mutant) a failed ledger write that reaches the caller
RecordResultRaises ==
    /\ pc = "book"
    /\ j <= Len(results)
    /\ LET r == results[j]
           link == FirstLink(r.email)
       IN  /\ RecordAttempt(r, link)
           /\ RecordLinkPatternCall(r.email.id, link, r.success)
    /\ IF Len(ledger_calls') > Len(ledger_calls)
          /\ ~ledger_calls'[Len(ledger_calls')].written
       THEN pc' = "raised" /\ j' = j
       ELSE pc' = pc /\ j' = j + 1
    /\ UNCHANGED <<soloVars, emails, db, engineVars, contexts, i, results,
                   msgVars, wait, page_content, raising, attempts>>

\* one iteration of the loop over the results: record_unsubscribe_attempt and
\* record_link_pattern_result (whose write may fail and is then swallowed)
RecordResult ==
    /\ pc = "book"
    /\ j <= Len(results)
    /\ LET r == results[j]
           link == FirstLink(r.email)
       IN  /\ RecordAttempt(r, link)
           /\ RecordLinkPatternCall(r.email.id, link, r.success)
    /\ j' = j + 1
    /\ UNCHANGED <<soloVars, emails, db, pc, engineVars, contexts, i, results,
                   msgVars, wait, page_content, raising, attempts>>

BookDone ==
    /\ pc = "book"
    /\ j > Len(results)
    /\ pc' = "done"
    /\ UNCHANGED <<soloVars, emails, db, engineVars, contexts, i, results,
                   msgVars, wait, page_content, raising, attempts, bookVars>>

Next ==
    \/ StartPlaywright
    \/ LaunchBrowser
    \/ NextMessage
    \/ MailtoAttempt
    \/ Prioritize
    \/ AllFailed
    \/ NewContext
    \/ NewPage
    \/ Goto
    \/ Content
    \/ FindAndClick
    \/ Confirm
    \/ Interrupt
    \/ BatchEnd
    \/ AExit
    \/ RecordResult
    \/ BookDone

Spec == Init /\ [][Next]_vars

\* ------------------------------------------ the prioritizer on its own
\* ledgers that n or fewer recorded outcomes leave behind
HistLinks == {WUnsub, WPref, WOther}
RECURSIVE LedgersAfter(_)
LedgersAfter(n) ==
    IF n = 0 THEN {EmptyLedger}
    ELSE LET prev == LedgersAfter(n - 1) IN
         prev \cup {RecordLinkPatternResult(led, link, ok) :
                        led \in prev, link \in HistLinks, ok \in BOOLEAN}

PrioLists == UNION {[1..n -> PrioPool] : n \in 1..MaxPrio}

\* unsubscribe_from_email about to prioritize the web links of one message
InitPrio ==
    /\ \E links \in PrioLists :
          /\ emails = <<[id |-> 1, from |-> FromNews,
                         unsubscribe_links |-> links]>>
          /\ web_links = links
    /\ db = TRUE
    /\ ledger \in LedgersAfter(MaxHist)
    /\ pc = "mailto"
    /\ playwright = "running"
    /\ browser = "running"
    /\ contexts = 0
    /\ i = 1
    /\ results = <<>>
    /\ mailto_links = <<>>
    /\ link_priorities = <<>>
    /\ k = 1
    /\ attempt_errors = <<>>
    /\ wait = 1
    /\ page_content = ""
    /\ raising = "none"
    /\ attempts = <<>>
    /\ j = 1
    /\ NoRows
    /\ ledger_calls = <<>>
    /\ NoMail
    /\ NoFind
    /\ NoScan

NextPrio == Prioritize

SpecPrio == InitPrio /\ [][NextPrio]_vars

\* ------------------------------------------- the link extractor on its own
HeaderLists == UNION {[1..n -> HeaderPool] : n \in 0..MaxHeader}
BodyLists   == UNION {[1..n -> BodyPool] : n \in 0..MaxBody}

InitExtract ==
    /\ \E hs \in HeaderLists, as \in BodyLists :
          /\ mail = [header |-> hs, anchors |-> as]
          /\ list_unsubscribe = HeaderText(hs)
          /\ body = BodyText(as)
    /\ unique_links = <<>>
    /\ pc = "extract"
    /\ emails = <<>>
    /\ db = FALSE
    /\ ledger = EmptyLedger
    /\ playwright = "none"
    /\ browser = "none"
    /\ contexts = 0
    /\ i = 1
    /\ results = <<>>
    /\ mailto_links = <<>>
    /\ web_links = <<>>
    /\ link_priorities = <<>>
    /\ k = 1
    /\ attempt_errors = <<>>
    /\ wait = 1
    /\ page_content = ""
    /\ raising = "none"
    /\ attempts = <<>>
    /\ j = 1
    /\ NoRows
    /\ ledger_calls = <<>>
    /\ NoFind
    /\ NoScan

\* unsubscribe_links = self._find_unsubscribe_links(body, list_unsubscribe)
ExtractEmailData ==
    /\ pc = "extract"
    /\ unique_links' = FindUnsubscribeLinks(body, list_unsubscribe)
    /\ pc' = "extracted"
    /\ UNCHANGED <<list_unsubscribe, body, mail, findVars, scanVars>>
    /\ UNCHANGED <<emails, db, engineVars, contexts, i, results, msgVars,
                   wait, page_content, raising, attempts, bookVars>>

NextExtract == ExtractEmailData

SpecExtract == InitExtract /\ [][NextExtract]_vars

\* ---------------------------------------------- the pattern ledger on its own
\* links the ledger is called with: web links of every pattern in use, a
\* mailto link, and the empty string
CallLinks == HistLinks \cup {WSettings, WOptOut, M1, <<>>}

InitLedger ==
    /\ ledger = EmptyLedger
    /\ ledger_calls = <<>>
    /\ pc = "ledger"
    /\ emails = <<>>
    /\ db = TRUE
    /\ playwright = "none"
    /\ browser = "none"
    /\ contexts = 0
    /\ i = 1
    /\ results = <<>>
    /\ mailto_links = <<>>
    /\ web_links = <<>>
    /\ link_priorities = <<>>
    /\ k = 1
    /\ attempt_errors = <<>>
    /\ wait = 1
    /\ page_content = ""
    /\ raising = "none"
    /\ attempts = <<>>
    /\ j = 1
    /\ NoRows
    /\ NoMail
    /\ NoFind
    /\ NoScan

\* db.record_link_pattern_result(unsubscribe_link, success)
RecordLinkPattern ==
    /\ pc = "ledger"
    /\ j <= MaxCalls
    /\ \E link \in CallLinks, success \in BOOLEAN :
          RecordLinkPatternCall(j, link, success)
    /\ j' = j + 1
    /\ UNCHANGED <<soloVars, emails, db, pc, engineVars, contexts, i, results,
                   msgVars, wait, page_content, raising, attempts,
                   attempt_records, subscriptions, clock>>

NextLedger == RecordLinkPattern

SpecLedger == InitLedger /\ [][NextLedger]_vars

\* ------------------------------ the ledger and the prioritizer together
\* the web links of the message of a later batch
LearnLinks == {WUnsub, WPref, WSettings, WOptOut}

\* a later batch starts with a ledger handle on one message: its engine is
\* running and its for loop is about to take the message
NextBatch ==
    /\ pc = "ledger"
    /\ \E link \in LearnLinks :
          emails' = <<[id |-> 1, from |-> FromNews,
                       unsubscribe_links |-> <<link>>]>>
    /\ playwright' = "running"
    /\ browser' = "running"
    /\ pc' = "loop"
    /\ UNCHANGED <<soloVars, db, contexts, i, results, msgVars, wait,
                   page_content, raising, attempts, bookVars>>

NextLearn ==
    \/ RecordLinkPattern
    \/ NextBatch
    \/ NextMessage
    \/ Prioritize

SpecLearn == InitLedger /\ [][NextLearn]_vars

\* ------------------------------------------- the control search on its own
\* the batch and the database at rest
batchVars == <<emails, db, engineVars, contexts, i, results, msgVars, wait,
               page_content, raising, attempts, bookVars>>
NoBatch ==
    /\ emails = <<>>
    /\ db = FALSE
    /\ ledger = EmptyLedger
    /\ ledger_calls = <<>>
    /\ playwright = "none"
    /\ browser = "none"
    /\ contexts = 0
    /\ i = 1
    /\ results = <<>>
    /\ mailto_links = <<>>
    /\ web_links = <<>>
    /\ link_priorities = <<>>
    /\ k = 1
    /\ attempt_errors = <<>>
    /\ wait = 1
    /\ page_content = ""
    /\ raising = "none"
    /\ attempts = <<>>
    /\ j = 1
    /\ NoRows

\* the head of the two selector lists of _find_and_click_unsubscribe
SelectorPool ==
    <<"button:has-text('Unsubscribe')", "a:has-text('Unsubscribe')",
      "button:has-text('unsubscribe')", "a:has-text('unsubscribe')",
      "button:has-text('UNSUBSCRIBE')">>
ConfirmationPool ==
    <<"button:has-text('Confirm')", "button:has-text('confirm')",
      "button:has-text('Yes')", "button:has-text('yes')">>
selectors == SubSeq(SelectorPool, 1, Min(MaxSelectors, Len(SelectorPool)))
confirmation_selectors ==
    SubSeq(ConfirmationPool, 1, Min(MaxConfirm, Len(ConfirmationPool)))

InitFind ==
    /\ pc = "is_visible"
    /\ NoFind
    /\ NoBatch
    /\ NoMail
    /\ NoScan

\* what a selector led to is noted; `conf` is 0 for a primary selector
Event(what) ==
    [selector |-> selector, conf |-> conf_selector, what |-> what]

\* the for loop over `selectors` takes the next selector (the element was not
\* visible, or `except: continue`), or is exhausted: return False
NextSelector(what) ==
    /\ events' = Append(events, Event(what))
    /\ IF selector < Len(selectors)
       THEN selector' = selector + 1 /\ pc' = "is_visible"
       ELSE selector' = selector /\ pc' = "return_false"
    /\ UNCHANGED conf_selector

\* element.is_visible(timeout=3000)
IsVisible ==
    /\ pc = "is_visible"
    /\ \/ pc' = "scroll" /\ UNCHANGED findVars
       \/ NextSelector("hidden")
       \/ NextSelector("error")
    /\ UNCHANGED <<batchVars, mailVars, scanVars>>

\* element.scroll_into_view_if_needed()
Scroll ==
    /\ pc = "scroll"
    /\ \/ pc' = "click" /\ UNCHANGED findVars
       \/ NextSelector("error")
    /\ UNCHANGED <<batchVars, mailVars, scanVars>>

\* (mutant) a search that goes on to the next selector after a click
ClickKeepsSearching ==
    /\ pc = "click"
    /\ \/ NextSelector("clicked")
       \/ NextSelector("error")
    /\ UNCHANGED <<batchVars, mailVars, scanVars>>

\* element.click(timeout=5000); after it the confirmation loop starts
Click ==
    /\ pc = "click"
    /\ \/ /\ events' = Append(events, Event("clicked"))
          /\ conf_selector' = 1
          /\ pc' = "conf_is_visible"
          /\ UNCHANGED selector
       \/ NextSelector("error")
    /\ UNCHANGED <<batchVars, mailVars, scanVars>>

\* the for loop over `confirmation_selectors` takes the next selector, or is
\* exhausted; `break` after a click; then return True
NextConfirmation(what) ==
    /\ events' = Append(events, Event(what))
    /\ IF what # "clicked" /\ conf_selector < Len(confirmation_selectors)
       THEN conf_selector' = conf_selector + 1 /\ pc' = "conf_is_visible"
       ELSE conf_selector' = conf_selector /\ pc' = "return_true"
    /\ UNCHANGED selector

\* conf_element.is_visible(timeout=2000)
ConfIsVisible ==
    /\ pc = "conf_is_visible"
    /\ \/ pc' = "conf_scroll" /\ UNCHANGED findVars
       \/ NextConfirmation("hidden")
       \/ NextConfirmation("error")
    /\ UNCHANGED <<batchVars, mailVars, scanVars>>

\* conf_element.scroll_into_view_if_needed()
ConfScroll ==
    /\ pc = "conf_scroll"
    /\ \/ pc' = "conf_click" /\ UNCHANGED findVars
       \/ NextConfirmation("error")
    /\ UNCHANGED <<batchVars, mailVars, scanVars>>

\* conf_element.click(timeout=5000)
ConfClick ==
    /\ pc = "conf_click"
    /\ \/ NextConfirmation("clicked")
       \/ NextConfirmation("error")
    /\ UNCHANGED <<batchVars, mailVars, scanVars>>

NextFind ==
    \/ IsVisible
    \/ Scroll
    \/ Click
    \/ ConfIsVisible
    \/ ConfScroll
    \/ ConfClick

SpecFind == InitFind /\ [][NextFind]_vars

\* --------------------------------------- the subscriptions table on its own
InitSubs ==
    /\ pc = "subs"
    /\ NoBatch
    /\ NoMail
    /\ NoFind
    /\ NoScan

\* db.add_subscription(sender_address, sender_name)
AddSubscriptionCall ==
    /\ pc = "subs"
    /\ j <= MaxAttempts
    /\ \E from \in FromPool :
          subscriptions' = AddSubscription(subscriptions, ParseAddr(from).address,
                                           ParseAddr(from).name, clock)
    /\ clock' = clock + 1
    /\ j' = j + 1
    /\ UNCHANGED <<soloVars, emails, db, pc, engineVars, contexts, i, results,
                   msgVars, wait, page_content, raising, attempts,
                   attempt_records, ledger_calls, ledger>>

\* db.record_unsubscribe_attempt(subscription_id, email_id, link, success,
\* message): the INSERT and the UPDATE are committed together, or the
\* connection rolls both back and the call raises
RecordUnsubscribeAttempt ==
    /\ pc = "subs"
    /\ j <= MaxAttempts
    /\ \E id \in 1..(Len(subscriptions) + 1), success \in BOOLEAN,
          committed \in BOOLEAN :
          IF committed
          THEN /\ attempt_records' = Append(attempt_records,
                      AttemptRow(id, j, WUnsub, success, <<>>, clock))
               /\ subscriptions' =
                      UpdateSubscription(subscriptions, id, success, clock)
          ELSE UNCHANGED <<attempt_records, subscriptions>>
    /\ clock' = clock + 1
    /\ j' = j + 1
    /\ UNCHANGED <<soloVars, emails, db, pc, engineVars, contexts, i, results,
                   msgVars, wait, page_content, raising, attempts,
                   ledger_calls, ledger>>

NextSubs ==
    \/ AddSubscriptionCall
    \/ RecordUnsubscribeAttempt

SpecSubs == InitSubs /\ [][NextSubs]_vars

\* ------------------------------------------------ the scan loop on its own
\* the messages of the mailbox that carry unsubscribe links
Inbox == 1..MaxInbox
Message(id) == [id |-> id, from |-> FromNews, unsubscribe_links |-> <<WUnsub>>]

\* the ids of a set in the order Gmail lists them
RECURSIVE Listed(_)
Listed(ids) ==
    IF ids = {} THEN <<>>
    ELSE LET id == CHOOSE x \in ids : \A y \in ids : x <= y
         IN  <<id>> \o Listed(ids \ {id})

\* (mutant) a message counts as processed once an attempt on it succeeded
IsAlreadyProcessedOnSuccess(records, email_id) ==
    \E n \in 1..Len(records) :
        records[n].email_id = email_id /\ records[n].success

\* is_already_processed: SELECT COUNT(*) FROM unsubscribe_attempts
\* WHERE email_id = ?
IsAlreadyProcessed(records, email_id) ==
    \E n \in 1..Len(records) : records[n].email_id = email_id

InitRun ==
    /\ pc = "scan"
    /\ NoBatch
    /\ NoMail
    /\ NoFind
    /\ NoScan

\* cli.ask_continue(): the loop scans again, or breaks
AskContinue == pc' \in {"scan", "statistics"}

\* find_emails_with_unsubscribe, then the filter on is_already_processed
Scan ==
    /\ pc = "scan"
    /\ \E ids \in SUBSET Inbox :
          LET new == SelectSeq(Listed(ids),
                         LAMBDA id : ~IsAlreadyProcessed(attempt_records, id))
          IN  /\ messages' = Listed(ids)
              /\ emails' = [n \in 1..Len(new) |-> Message(new[n])]
    /\ IF emails' = <<>> THEN AskContinue ELSE pc' = "approve"
    /\ UNCHANGED <<mailVars, findVars, approved_emails, batches, db,
                   engineVars, contexts, i, results, msgVars, wait,
                   page_content, raising, attempts, bookVars>>

\* cli.display_emails(emails): the user approves some of the messages shown
DisplayEmails ==
    /\ pc = "approve"
    /\ \E chosen \in SUBSET (1..Len(emails)) :
          approved_emails' = [n \in 1..Cardinality(chosen) |->
                                 emails[Listed(chosen)[n]]]
    /\ IF approved_emails' = <<>> THEN AskContinue ELSE pc' = "process"
    /\ UNCHANGED <<mailVars, findVars, messages, batches, emails, db,
                   engineVars, contexts, i, results, msgVars, wait,
                   page_content, raising, attempts, bookVars>>

\* the bookkeeping loop over the results, from table state st on
RECURSIVE Book(_, _)
Book(st, rs) ==
    IF rs = <<>> THEN st
    ELSE Book(BookOne(st, Head(rs), FirstLink(Head(rs).email)), Tail(rs))
RECURSIVE BookLedger(_, _)
BookLedger(led, rs) ==
    IF rs = <<>> THEN led
    ELSE BookLedger(RecordLinkPatternResult(led, FirstLink(Head(rs).email),
                                            Head(rs).success), Tail(rs))

\* asyncio.run(self._process_unsubscribes(approved_emails)): the batch gives
\* one result per message and the caller records the first n of them; the
\* batch raising (n = 0) or a database call raising ends run()
ProcessUnsubscribes ==
    /\ pc = "process"
    /\ Len(batches) < MaxBatches
    /\ batches' = Append(batches,
                     [n \in 1..Len(approved_emails) |-> approved_emails[n].id])
    /\ \E ok \in [1..Len(approved_emails) -> BOOLEAN],
          n \in 0..Len(approved_emails) :
          LET rs == [m \in 1..Len(approved_emails) |->
                        [email |-> approved_emails[m], success |-> ok[m],
                         message |-> IF ok[m]
                                     THEN <<"Successfully unsubscribed">>
                                     ELSE <<"Could not find unsubscribe button">>]]
              st == Book([records |-> attempt_records, subs |-> subscriptions,
                          clock |-> clock], SubSeq(rs, 1, n))
          IN  /\ results' = IF n = 0 THEN <<>> ELSE rs
              /\ attempt_records' = st.records
              /\ subscriptions' = st.subs
              /\ clock' = st.clock
              /\ ledger' = BookLedger(ledger, SubSeq(rs, 1, n))
              /\ IF n < Len(rs) THEN pc' = "raised" ELSE AskContinue
    /\ UNCHANGED <<mailVars, findVars, messages, approved_emails, emails, db,
                   engineVars, contexts, i, msgVars, wait, page_content,
                   raising, attempts, j, ledger_calls>>

NextRun ==
    \/ Scan
    \/ DisplayEmails
    \/ ProcessUnsubscribes

SpecRun == InitRun /\ [][NextRun]_vars

\* ================================================================ claims
AttemptPcs == {"page", "goto", "content", "find", "confirm"}
InMessage  == pc \in {"mailto", "web"} \cup AttemptPcs

\* the attempts made for message n, in order
AttemptsOf(n) == SelectSeq(attempts, LAMBDA a : a.email = n)

\* C1: once a link attempt of a message returns a non-failure outcome, that
\* outcome is the result of the message and no later link of the message is
\* attempted.
C1_OutcomeMonotonic ==
    \A a \in 1..Len(attempts) :
        attempts[a].success =>
            /\ \A b \in 1..Len(attempts) :
                   b > a => attempts[b].email # attempts[a].email
            /\ Len(results) >= attempts[a].email
            /\ results[attempts[a].email].success
            /\ results[attempts[a].email].message = attempts[a].message

\* a message whose first web link succeeded while another candidate was left
C1_Witness ==
    \E a \in 1..Len(attempts) :
        /\ attempts[a].success
        /\ Len(AttemptsOf(attempts[a].email))
             < Len(emails[attempts[a].email].unsubscribe_links)

\* C2: every link attempt is reported to the ledger: once the bookkeeping is
\* done, the ledger calls made for a message are, in order, the attempts made
\* for it, each with the attempted link's domain and pattern and the attempt's
\* own success flag.
C2_LedgerPerAttempt ==
    pc = "done" /\ db =>
        \A n \in 1..Len(emails) :
            LET calls == SelectSeq(ledger_calls, LAMBDA c : c.email_id = n)
                atts  == AttemptsOf(n)
            IN  /\ Len(calls) = Len(atts)
                /\ \A x \in 1..Len(atts) :
                       /\ calls[x].link = atts[x].link
                       /\ calls[x].domain = Netloc(atts[x].link)
                       /\ calls[x].pattern = PatternOf(atts[x].link)
                       /\ calls[x].success = atts[x].success

\* C3: for a message whose result is success, the link written to the attempt
\* record and to the ledger is the link whose attempt succeeded.
C3_RecordedLinkSucceeded ==
    /\ \A n \in 1..Len(attempt_records) :
           attempt_records[n].success =>
               \E a \in 1..Len(attempts) :
                   /\ attempts[a].email = attempt_records[n].email_id
                   /\ attempts[a].success
                   /\ attempts[a].link = attempt_records[n].unsubscribe_link
    /\ \A n \in 1..Len(ledger_calls) :
           ledger_calls[n].success =>
               \E a \in 1..Len(attempts) :
                   /\ attempts[a].email = ledger_calls[n].email_id
                   /\ attempts[a].success
                   /\ attempts[a].link = ledger_calls[n].link

\* the address embedded in a mailto link: what follows 'mailto:', up to '?'
EmbeddedAddress(link) == SplitFirst(Tail(link), "?")
NamesAddress(message, link) ==
    Contains(message, <<"mailto link (requires manual email to ">>
                      \o EmbeddedAddress(link) \o <<")">>)
MailtoOnly(links) ==
    links # <<>> /\ \A n \in 1..Len(links) : IsMailto(links[n])

\* no browsing context and no navigation for message n
NoBrowserFor(n) ==
    /\ \A a \in 1..Len(attempts) :
           attempts[a].email = n => attempts[a].via = "mailto"
    /\ (i = n /\ InMessage) => pc \notin AttemptPcs

\* C4 (as stated): a message with only mailto links fails, its message names
\* the address of every mailto link of the list, and no browsing context is
\* opened for it.
C4_MailtoNamesEveryAddress ==
    \A n \in 1..Len(emails) :
        MailtoOnly(emails[n].unsubscribe_links) =>
            /\ NoBrowserFor(n)
            /\ n <= Len(results) =>
                  /\ ~results[n].success
                  /\ \A x \in 1..Len(emails[n].unsubscribe_links) :
                         NamesAddress(results[n].message,
                                      emails[n].unsubscribe_links[x])

\* C4 (amended): a message with only mailto links fails, its message names
\* the address of each of the first five mailto links of the list, and no
\* browsing context is opened and no navigation performed for it.
C4_MailtoNamesFirstFive ==
    \A n \in 1..Len(emails) :
        MailtoOnly(emails[n].unsubscribe_links) =>
            /\ NoBrowserFor(n)
            /\ n <= Len(results) =>
                  /\ ~results[n].success
                  /\ \A x \in 1..Min(5, Len(emails[n].unsubscribe_links)) :
                         NamesAddress(results[n].message,
                                      emails[n].unsubscribe_links[x])

\* the result of a message with two or more mailto links and nothing else
C4_Witness ==
    \E n \in 1..Len(results) :
        /\ MailtoOnly(emails[n].unsubscribe_links)
        /\ Len(emails[n].unsubscribe_links) >= 2
        /\ ~results[n].success

\* C5 (as stated): web links are attempted first, then the mailto links: no
\* mailto link is attempted before a web link of the same message.
C5_WebBeforeMailto ==
    \A a, b \in 1..Len(attempts) :
        (a < b /\ attempts[a].email = attempts[b].email) =>
            ~(IsMailto(attempts[a].link) /\ ~IsMailto(attempts[b].link))

\* C5 (amended): the mailto links are attempted first, in extraction order,
\* then the web links in prioritized order: no web link is attempted before
\* a mailto link of the same message.
C5_MailtoBeforeWeb ==
    /\ \A a, b \in 1..Len(attempts) :
           (a < b /\ attempts[a].email = attempts[b].email) =>
               ~(~IsMailto(attempts[a].link) /\ IsMailto(attempts[b].link))
    /\ pc = "web" =>
           LET atts == AttemptsOf(i)
               nm   == Len(mailto_links)
           IN  /\ Len(atts) = nm + k - 1
               /\ \A x \in 1..nm : atts[x].link = mailto_links[x]
               /\ \A x \in 1..(k - 1) : atts[nm + x].link = web_links[x]
               /\ mailto_links = SelectSeq(emails[i].unsubscribe_links, IsMailto)

\* a web link attempted after a mailto link of the same message
C5_Witness ==
    \E a, b \in 1..Len(attempts) :
        /\ a < b
        /\ attempts[a].email = attempts[b].email
        /\ IsMailto(attempts[a].link)
        /\ ~IsMailto(attempts[b].link)
        /\ attempts[b].via = "browser"

PrefOnly(link) ==
    Has(UrlPath(link), "preferences") /\ ~Has(UrlPath(link), "unsubscribe")
HasUnsub(link) == Has(UrlPath(link), "unsubscribe")
NoQueryError ==
    \A n \in 1..Len(link_priorities) : link_priorities[n].priority # 1

\* C6: with no ledger history for the domain (no qualifying record, or no
\* ledger handle at all), a web link whose path contains 'unsubscribe' comes
\* before a web link of the same message and domain whose path contains only
\* 'preferences', whatever their extraction order.
C6_ColdStartUnsubscribeFirst ==
    (pc = "web" /\ NoQueryError) =>
        \A x, y \in 1..Len(web_links) :
            ( /\ x < y
              /\ Netloc(web_links[x]) = Netloc(web_links[y])
              /\ Qualifying(ledger, Netloc(web_links[x])) = {} )
            => ~(PrefOnly(web_links[x]) /\ HasUnsub(web_links[y]))

\* C7: the attempt order of the web links is the candidate list sorted by
\* score, highest first, links of equal score keeping their extraction
\* order; it is a rearrangement of the candidate list that the scores alone
\* determine.
C7_PrioritizationStable ==
    (pc = "web" /\ db) =>
        LET lp   == link_priorities
            orig == WebLinksOf(emails[i].unsubscribe_links)
        IN  /\ Len(lp) = Len(orig)
            /\ Len(web_links) = Len(orig)
            /\ \A n \in 1..Len(lp) :
                   /\ lp[n].pos \in 1..Len(orig)
                   /\ lp[n].link = orig[lp[n].pos]
                   /\ web_links[n] = lp[n].link
            /\ \A x, y \in 1..Len(lp) :
                   x < y =>
                       /\ lp[x].pos # lp[y].pos
                       /\ lp[x].priority >= lp[y].priority
                       /\ lp[x].priority = lp[y].priority => lp[x].pos < lp[y].pos

\* two links of equal score and a higher-scored link extracted after them
C7_Witness ==
    /\ pc = "web" /\ db
    /\ \E x, y, z \in 1..Len(link_priorities) :
          /\ x < y /\ y < z
          /\ link_priorities[x].pos = 3
          /\ link_priorities[y].priority = link_priorities[z].priority
          /\ link_priorities[x].priority > 10
          /\ link_priorities[y].link # link_priorities[z].link

\* C8: every browsing context opened for a link attempt is closed when the
\* attempt ends: outside a link attempt no context is open.
C8_ContextsClosed == pc \notin AttemptPcs => contexts = 0

\* C9: when the batch has ended, by returning or by raising, neither the
\* browser nor the automation driver is left running.
C9_EngineShutDown ==
    pc \in {"raised", "book", "done"} =>
        (browser # "running" /\ playwright # "running")

\* C10: once the engine has started no outcome of a link attempt aborts the
\* batch: it returns one result per input message, in input order; it raises
\* only when the engine failed to start (or the batch was cancelled).
C10_BatchNeverAborts ==
    /\ Len(results) <= Len(emails)
    /\ \A n \in 1..Len(results) : results[n].email = emails[n]
    /\ pc \in {"book", "done"} => Len(results) = Len(emails)
    /\ pc = "raised" => raising \in {"start", "interrupt"}
    /\ (pc = "raised" /\ raising = "start") => browser = "none"

\* a returned batch in which every link of a message failed, one of them by
\* an exception, and a later message was processed
C10_Witness ==
    /\ pc \in {"book", "done"}
    /\ \E a \in 1..Len(attempts) :
          /\ attempts[a].message = <<"new_page failed">>
          /\ ~results[attempts[a].email].success
          /\ attempts[a].email < Len(results)
          /\ \E b \in 1..Len(attempts) : attempts[b].email > attempts[a].email

\* ------------------------------------------------ outcome of a web attempt
Browser(a) == a.via = "browser"
Clicked(a) == a.at = "confirm"
ReadAfterClick(a) == Clicked(a) /\ a.content # ""
FoundAlready(a) ==
    a.at = "content" /\ a.content # "" /\ IsAlreadyUnsubscribed(a.content)
ClickOutcomes(a) ==
    /\ (ReadAfterClick(a) /\ IsUnsubscribeSuccessful(a.content)) =>
           (a.success /\ a.message = <<"Successfully unsubscribed">>)
    /\ (ReadAfterClick(a) /\ ~IsUnsubscribeSuccessful(a.content)) =>
           (a.success /\ a.message # <<"Successfully unsubscribed">>)
    /\ a.at = "find" =>
           (~a.success /\ a.message = <<"Could not find unsubscribe button">>)

\* C11 (as stated): a click with a success phrase gives 'Successfully
\* unsubscribed', a click without one gives a success with another message,
\* no click gives the failure 'Could not find unsubscribe button', and the
\* success flag is true exactly when the page was already-unsubscribed or a
\* control was clicked.
C11_SuccessIffClicked ==
    \A n \in 1..Len(attempts) :
        LET a == attempts[n] IN
        Browser(a) =>
            /\ ClickOutcomes(a)
            /\ a.success <=> (FoundAlready(a) \/ Clicked(a))

\* C11 (amended): the same three outcomes; the success flag is true exactly
\* when the page was already-unsubscribed, or a control was clicked and the
\* page content was read after the click. An exception after the click gives
\* a failure.
C11_SuccessIffClickedAndRead ==
    \A n \in 1..Len(attempts) :
        LET a == attempts[n] IN
        Browser(a) =>
            /\ ClickOutcomes(a)
            /\ a.success <=> (FoundAlready(a) \/ ReadAfterClick(a))
            /\ (Clicked(a) /\ ~ReadAfterClick(a)) => Head(a.message) = "Error: "

C11_Witness ==
    /\ \E n \in 1..Len(attempts) :
           /\ ReadAfterClick(attempts[n])
           /\ ~IsUnsubscribeSuccessful(attempts[n].content)
           /\ attempts[n].success
    /\ \E n \in 1..Len(attempts) : attempts[n].at = "find"

\* ----------------------------------------------- the all-failed message
\* the parts of a text between the separators '; '
RECURSIVE SplitAll(_, _)
SplitAll(s, t) ==
    LET first == SplitFirst(s, t) IN
    IF Len(first) = Len(s) THEN <<first>>
    ELSE <<first>> \o SplitAll(SubSeq(s, Len(first) + 2, Len(s)), t)
EndsWith(s, t) ==
    Len(t) <= Len(s) /\ SubSeq(s, Len(s) - Len(t) + 1, Len(s)) = t
ReasonsIn(message) == SplitAll(SubSeq(message, 4, Len(message)), "; ")
AllAttemptsFailed(n) ==
    /\ n <= Len(results)
    /\ emails[n].unsubscribe_links # <<>>
    /\ \A x \in 1..Len(AttemptsOf(n)) : ~AttemptsOf(n)[x].success

\* C12: when every link of a message fails, the result is failure and its
\* message holds the failure reasons of the first five attempts, and of no
\* later attempt, in the order the links were attempted.
C12_FirstFiveReasons ==
    \A n \in 1..Len(emails) :
        AllAttemptsFailed(n) =>
            LET atts == AttemptsOf(n)
                rs   == ReasonsIn(results[n].message)
            IN  /\ ~results[n].success
                /\ Len(atts) = Len(emails[n].unsubscribe_links)
                /\ Len(rs) = Min(5, Len(atts))
                /\ \A x \in 1..Len(rs) : EndsWith(rs[x], atts[x].message)

C12_Witness ==
    \E n \in 1..Len(emails) :
        /\ AllAttemptsFailed(n)
        /\ Len(AttemptsOf(n)) > 5
        /\ Len(ReasonsIn(results[n].message)) = 5
        /\ AttemptsOf(n)[6].message # AttemptsOf(n)[5].message

\* ------------------------------------------------------ the link extractor
\* html.unescape on a link: every entity for '&' becomes '&'
HtmlUnescape(link) ==
    [n \in 1..Len(link) |-> IF link[n] \in {"&amp;", "&#38;"} THEN "&" ELSE link[n]]
UnescapeAll(links) == [n \in 1..Len(links) |-> HtmlUnescape(links[n])]
Extracted == pc = "extracted"
Occurs(seq, u) == \E n \in 1..Len(seq) : seq[n] = u
FirstIndex(seq, u) ==
    CHOOSE n \in 1..Len(seq) : seq[n] = u /\ \A m \in 1..(n - 1) : seq[m] # u
MatchesToken(url) ==
    Has(url, "unsubscribe") \/ Has(url, "opt-out") \/ Has(url, "preferences")

\* C13: for a header with bracketed URLs and an empty body the extractor
\* returns exactly the bracketed URLs, in header order, with HTML entities
\* unescaped.
C13_HeaderUrlsExactly ==
    (Extracted /\ mail.header # <<>> /\ mail.anchors = <<>>) =>
        unique_links = UnescapeAll(mail.header)

\* C14: two different matching body links that are extracted from the body
\* stand in the output in the order of their first occurrence in the body,
\* whichever token each one matches.
C14_BodyDocumentOrder ==
    Extracted =>
        \A x, y \in 1..Len(mail.anchors) :
            LET a == mail.anchors[x]
                b == mail.anchors[y]
            IN  (/\ x < y
                 /\ MatchesToken(a) /\ MatchesToken(b)
                 /\ ~Occurs(mail.header, a) /\ ~Occurs(mail.header, b)
                 /\ \A z \in 1..(y - 1) : mail.anchors[z] # b
                 /\ Occurs(unique_links, a) /\ Occurs(unique_links, b)) =>
                FirstIndex(unique_links, a) < FirstIndex(unique_links, b)

\* C15: the extracted list has no two URLs that are equal after HTML-entity
\* unescaping, holds only strings beginning with 'http', lists every URL
\* of the header before every URL found only in the body, and keeps the
\* URLs in the order of their first occurrence (header, then body).
FromHeader(u) == Occurs(UnescapeAll(mail.header), HtmlUnescape(u))
Candidates == UnescapeAll(mail.header \o mail.anchors)
C15_UniqueHttpFirstSeen ==
    Extracted =>
        /\ \A m, n \in 1..Len(unique_links) :
               m < n => HtmlUnescape(unique_links[m]) # HtmlUnescape(unique_links[n])
        /\ \A n \in 1..Len(unique_links) :
               Head(unique_links[n]) \in {"http://", "https://"}
        /\ \A m, n \in 1..Len(unique_links) :
               (FromHeader(unique_links[m]) /\ ~FromHeader(unique_links[n]))
                   => m < n
        /\ \A m, n \in 1..Len(unique_links) :
               m < n =>
                   /\ Occurs(Candidates, HtmlUnescape(unique_links[m]))
                   /\ Occurs(Candidates, HtmlUnescape(unique_links[n]))
                   /\ FirstIndex(Candidates, HtmlUnescape(unique_links[m]))
                          < FirstIndex(Candidates, HtmlUnescape(unique_links[n]))

\* ------------------------------------------------------ the pattern ledger
\* the written calls for one row, by outcome
Written(key, success) ==
    SelectSeq(ledger_calls,
              LAMBDA c : /\ c.written
                         /\ <<c.domain, c.pattern>> = key
                         /\ c.success = success)
LastCall == ledger_calls'[Len(ledger_calls')]
Called == Len(ledger_calls') = Len(ledger_calls) + 1
Grown(key) ==
    (ledger'[key].s - ledger[key].s) + (ledger'[key].f - ledger[key].f)

\* no call decreases a count or removes a row, and a call that writes
\* increases exactly one count of exactly one row by 1 and leaves every other
\* row as it was
LedgerStep ==
    /\ \A key \in Keys :
           /\ ledger'[key].s >= ledger[key].s
           /\ ledger'[key].f >= ledger[key].f
           /\ ledger[key].row => ledger'[key].row
    /\ (Called /\ LastCall.written) =>
           LET key == <<LastCall.domain, LastCall.pattern>> IN
           /\ Grown(key) = 1
           /\ ledger'[key].row
           /\ \A other \in Keys \ {key} : ledger'[other] = ledger[other]

\* a row exists only once an outcome was recorded for its (domain, pattern)
\* pair, and its counts are the numbers of successes and of failures
\* recorded for the pair
RowsCountOutcomes ==
    \A key \in Keys :
        /\ ledger[key].s = Len(Written(key, TRUE))
        /\ ledger[key].f = Len(Written(key, FALSE))
        /\ ledger[key].row <=> (ledger[key].s + ledger[key].f >= 1)

\* C16: over any sequence of record_link_pattern_result calls the counts of a
\* (domain, pattern) pair never decrease, a row exists only after the first
\* outcome recorded for its pair, and each call that records increases
\* exactly one count of exactly one row by 1, leaving the other rows unchanged.
C16_CountsGrowByOne == []RowsCountOutcomes /\ [][LedgerStep]_vars

C16_Witness ==
    \E key \in Keys : ledger[key].s >= 1 /\ ledger[key].f >= 1

\* C17: a ledger call whose write fails leaves the ledger as it was, raises
\* nothing to the bookkeeping loop, and the loop goes on to the next result;
\* the loop ends having handled every result.
C17_FailedWriteSwallowed ==
    [][ (pc = "book" /\ Called /\ ~LastCall.written) =>
            /\ ledger' = ledger
            /\ pc' = "book"
            /\ j' = j + 1
            /\ raising' = raising
      ]_vars
C17_Witness ==
    /\ pc = "done"
    /\ Len(attempt_records) = Len(results)
    /\ \E n \in 1..Len(ledger_calls) : ~ledger_calls[n].written
    /\ \E n \in 1..Len(ledger_calls) :
           /\ ledger_calls[n].written
           /\ \E m \in 1..(n - 1) : ~ledger_calls[m].written

\* ---------------------------------------------- learned and static scores
RECURSIVE SumAttempts(_, _)
SumAttempts(d, ps) ==
    IF ps = {} THEN 0
    ELSE LET p == CHOOSE x \in ps : TRUE
         IN  ledger[<<d, p>>].s + ledger[<<d, p>>].f + SumAttempts(d, ps \ {p})
DomainTotal(d) == IF d \in Domains THEN SumAttempts(d, Patterns) ELSE 0
RowAttempts(d, p) == ledger[<<d, p>>].s + ledger[<<d, p>>].f
Ranked == pc = "web" /\ db
Labels(best) == {best[n] : n \in 1..Len(best)}

\* C18 (as stated): the learned pattern list of a link's domain is in use
\* exactly when the ledger holds 2 or more attempts for the domain, summed
\* over its pattern labels.
C18_LearnedFromTwoTotal ==
    Ranked =>
        \A n \in 1..Len(link_priorities) :
            LET e == link_priorities[n] IN
            ~e.q.err => (DomainTotal(Netloc(e.link)) >= 2 <=> e.q.best # <<>>)

\* C18 (amended): the learned pattern list of a link's domain holds exactly
\* the pattern labels that each have 2 or more attempts for the domain; a link
\* gets a learned score only from such a label, and gets a static score when
\* no label of its domain has 2 attempts.
C18_LearnedFromTwoPerPattern ==
    Ranked =>
        \A n \in 1..Len(link_priorities) :
            LET e == link_priorities[n]
                d == Netloc(e.link)
            IN  ~e.q.err =>
                    /\ Labels(e.q.best) =
                           {p \in Patterns : d \in Domains /\ RowAttempts(d, p) >= 2}
                    /\ e.priority > 10 => e.q.best # <<>>
                    /\ e.q.best = <<>> => e.priority \in 2..5

C18_Witness ==
    /\ Ranked
    /\ \E n \in 1..Len(link_priorities) :
           LET e == link_priorities[n] IN
           /\ ~e.q.err
           /\ DomainTotal(Netloc(e.link)) >= 2
           /\ e.q.best = <<>>
           /\ e.priority \in 2..5

\* the score the learned list gives a link: the rank of the best-ranked label
\* the link's own path contains, 'other' counting only for a link whose own
\* pattern is 'other'; 0 when no label applies
OwnLabels(link, best) ==
    {m \in 1..Len(best) :
        \/ best[m] # "other" /\ Has(UrlPath(link), best[m])
        \/ best[m] = "other" /\ PatternOf(link) = "other"}
OwnLearnedScore(link, best) ==
    IF OwnLabels(link, best) = {} THEN 0
    ELSE LET m == CHOOSE x \in OwnLabels(link, best) :
                      \A y \in OwnLabels(link, best) : x <= y
         IN  Len(best) - (m - 1) + 10

\* C19: with a learned pattern list a web link gets the learned score of the
\* best-ranked label its own path contains; the label 'other' gives its score
\* only to a link whose own pattern is 'other'.
C19_ScoredByOwnLabel ==
    Ranked =>
        \A n \in 1..Len(link_priorities) :
            LET e == link_priorities[n] IN
            (~e.q.err /\ e.q.best # <<>>) =>
                IF OwnLearnedScore(e.link, e.q.best) # 0
                THEN e.priority = OwnLearnedScore(e.link, e.q.best)
                ELSE e.priority <= 5

\* the static score as the spec gives it
StaticScore(path) ==
    IF Has(path, "unsubscribe") THEN 5
    ELSE IF Has(path, "opt-out") \/ Has(path, "optout") THEN 4
    ELSE IF Has(path, "preferences") \/ Has(path, "settings") THEN 3
    ELSE 2
NoKeyword(link) == StaticScore(UrlPath(link)) = 2

\* C20: a link without a learned list gets the static score 5, 4, 3 or 2 by
\* the first keyword in its path, 'settings' counting as 'preferences'; so
\* with no history a 'settings' link is never attempted after a link with no
\* keyword.
C20_StaticFallback ==
    Ranked =>
        /\ \A n \in 1..Len(link_priorities) :
               LET e == link_priorities[n] IN
               (~e.q.err /\ e.q.best = <<>>) =>
                   e.priority = StaticScore(UrlPath(e.link))
        /\ \A x, y \in 1..Len(link_priorities) :
               LET a == link_priorities[x]
                   b == link_priorities[y]
               IN  (/\ x < y
                    /\ ~a.q.err /\ a.q.best = <<>>
                    /\ ~b.q.err /\ b.q.best = <<>>) =>
                   ~(NoKeyword(a.link) /\ Has(UrlPath(b.link), "settings"))

\* -------------------------------------------- errors while prioritizing
OriginalWebLinks == WebLinksOf(emails[i].unsubscribe_links)

\* C21: an error while parsing a link or querying the ledger for it does not
\* stop prioritization: the web links to attempt are the original web links
\* rearranged, none dropped or duplicated; the links without an error are
\* ordered by their scores; when every link has an error the attempt order is
\* the extraction order.
C21_QueryErrorsKeepLinks ==
    Ranked =>
        LET lp   == link_priorities
            orig == OriginalWebLinks
        IN  /\ Len(web_links) = Len(orig)
            /\ Len(lp) = Len(orig)
            /\ \A n \in 1..Len(orig) :
                   \E m \in 1..Len(lp) : lp[m].pos = n
            /\ \A m \in 1..Len(lp) :
                   /\ lp[m].pos \in 1..Len(orig)
                   /\ web_links[m] = orig[lp[m].pos]
            /\ \A x, y \in 1..Len(lp) :
                   (x < y /\ ~lp[x].q.err /\ ~lp[y].q.err) =>
                       lp[x].priority >= lp[y].priority
            /\ (\A m \in 1..Len(lp) : lp[m].q.err) => web_links = orig

\* some link with an error and some without, the attempt order not the
\* extraction order
C21_Witness ==
    /\ Ranked
    /\ \E x, y \in 1..Len(link_priorities) :
           /\ link_priorities[x].q.err
           /\ ~link_priorities[y].q.err
    /\ web_links # OriginalWebLinks

\* ------------------------------------------------------------ navigation
Inspecting == pc \in {"content", "find", "confirm"}
OutcomeAdded == Len(attempts') = Len(attempts) + 1
NavigationStep ==
    /\ (pc # "goto" /\ pc' = "goto") => WaitUntil[wait'] = "networkidle"
    /\ pc = "goto" =>
          \/ /\ pc' = "content"
             /\ wait' = wait
             /\ attempts' = attempts
          \/ /\ wait < Len(WaitUntil)
             /\ pc' = "goto"
             /\ wait' = wait + 1
             /\ attempts' = attempts
             /\ attempt_errors' = attempt_errors
             /\ results' = results
          \/ /\ wait = Len(WaitUntil)
             /\ OutcomeAdded
             /\ ~attempts'[Len(attempts')].success
    /\ Inspecting => (pc' # "goto" /\ (Inspecting' => wait' = wait))

\* C22: navigation starts with network-idle and goes on to load, then to
\* DOM-content-parsed; a failure of the first or second strategy is followed
\* by the next strategy without any outcome; the first strategy that succeeds
\* leads to page inspection and no strategy is tried after it; only a failure
\* of the third strategy gives a failure outcome.
C22_WaitStrategiesInOrder ==
    [](pc = "goto" => wait \in 1..Len(WaitUntil)) /\ [][NavigationStep]_vars

\* page inspection reached by the third strategy
C22_Witness == pc = "content" /\ WaitUntil[wait] = "domcontentloaded"

\* ------------------------------------------- exceptions of a link attempt
AfterPage(a) == Browser(a) /\ a.at \in {"goto", "content", "find", "confirm"}
Caught(a) == AfterPage(a) /\ a.exc.raised
ConvertedToFailure(a) ==
    /\ ~a.success
    /\ IF a.exc.timeout
       THEN a.message = <<"Page load timeout">>
       ELSE /\ Len(a.message) = 2
            /\ a.message[1] = "Error: "
            /\ Len(a.message[2]) = Min(100, Len(a.exc.text))
            /\ a.message[2] = SubSeq(a.exc.text, 1, Len(a.message[2]))
CaughtStep ==
    (OutcomeAdded /\ Caught(attempts'[Len(attempts')])) =>
        /\ pc' = "web"
        /\ k' = k + 1
        /\ raising' = "none"
        /\ results' = results

\* C23: an exception raised in a web-link attempt after its page was created
\* becomes a failure outcome and is not propagated: a timeout of the last
\* navigation gives 'Page load timeout', any other exception gives 'Error: '
\* followed by the first 100 characters of its text (the whole text when it
\* is shorter); the web loop then goes on to the next candidate link.
C23_ExceptionsBecomeFailures ==
    /\ [](\A n \in 1..Len(attempts) :
             Caught(attempts[n]) => ConvertedToFailure(attempts[n]))
    /\ [][CaughtStep]_vars

\* an error text longer than 100 characters was cut, and the next link of the
\* message was attempted
C23_Witness ==
    \E n \in 1..Len(attempts) :
        /\ Caught(attempts[n])
        /\ ~attempts[n].exc.timeout
        /\ Len(attempts[n].exc.text) > 100
        /\ Len(attempts[n].message[2]) = 100
        /\ n < Len(attempts)
        /\ attempts[n + 1].email = attempts[n].email

\* ------------------------------------------- the already-unsubscribed check
Searching == pc \in {"find", "confirm"}
Searched(a) == Browser(a) /\ a.at \in {"find", "confirm"}
ReturnedAtContent(a) == Browser(a) /\ a.at = "content" /\ ~a.exc.raised

\* C24: when the page content read right after the navigation matches an
\* already-unsubscribed phrase the attempt returns success 'Already
\* unsubscribed' at once: the control search and the confirmation step run
\* only on a page content that matches no such phrase, and an attempt that
\* returned at the content check is a success on a matching content.
C24_AlreadyUnsubscribedReturns ==
    /\ Searching => ~IsAlreadyUnsubscribed(page_content)
    /\ \A n \in 1..Len(attempts) :
          ReturnedAtContent(attempts[n]) =>
              /\ IsAlreadyUnsubscribed(attempts[n].content)
              /\ attempts[n].success
              /\ attempts[n].message = <<"Already unsubscribed">>

\* an attempt returned at the content check, and another one went on to the
\* control search
C24_Witness ==
    /\ \E n \in 1..Len(attempts) : ReturnedAtContent(attempts[n])
    /\ \E n \in 1..Len(attempts) : Searched(attempts[n])

\* ---------------------------------------------------- the control search
Primary(e) == e.conf = 0
PrimaryEvents == SelectSeq(events, Primary)
ConfEvents == SelectSeq(events, LAMBDA e : ~Primary(e))
ClicksOf(es) == {n \in 1..Len(es) : es[n].what = "clicked"}
Returned == pc \in {"return_true", "return_false"}

\* the selectors were tried in list order, one after the other, up to the
\* first one clicked
InListOrder ==
    /\ \A n \in 1..Len(PrimaryEvents) : PrimaryEvents[n].selector = n
    /\ \A n \in 1..Len(ConfEvents) : ConfEvents[n].conf = n
    /\ \A n \in ClicksOf(PrimaryEvents) : n = Len(PrimaryEvents)
    /\ \A n \in ClicksOf(ConfEvents) : n = Len(ConfEvents)
\* a confirmation selector is only tried after the primary click
ConfirmationAfterClick ==
    \A n \in 1..Len(events) :
        ~Primary(events[n]) =>
            \E m \in 1..(n - 1) :
                Primary(events[m]) /\ events[m].what = "clicked"
\* an error on a selector leads to the next selector of its list
ErrorStep ==
    (Len(events') > Len(events) /\ events'[Len(events')].what = "error") =>
        IF conf_selector = 0
        THEN IF selector < Len(selectors)
             THEN pc' = "is_visible" /\ selector' = selector + 1
             ELSE pc' = "return_false"
        ELSE IF conf_selector < Len(confirmation_selectors)
             THEN pc' = "conf_is_visible" /\ conf_selector' = conf_selector + 1
             ELSE pc' = "return_true"

\* C25: the control search tries the selectors in list order, an error on
\* one selector leads to the next, it stops at the first selector whose
\* element was clicked: at most one primary control and at most one
\* confirmation control are clicked, the latter only after a primary click,
\* and the search returns True exactly when a primary control was clicked.
C25_SearchStopsAtFirstClick ==
    /\ [](/\ InListOrder
          /\ ConfirmationAfterClick
          /\ Cardinality(ClicksOf(PrimaryEvents)) <= 1
          /\ Cardinality(ClicksOf(ConfEvents)) <= 1
          /\ Returned => (pc = "return_true" <=> ClicksOf(PrimaryEvents) # {})
          /\ pc = "return_false" => Len(PrimaryEvents) = Len(selectors))
    /\ [][ErrorStep]_vars

\* the second selector was clicked after an error on the first, and the
\* second confirmation selector was clicked after an error on the first
C25_Witness ==
    /\ pc = "return_true"
    /\ Len(events) = 4
    /\ events[1].what = "error" /\ events[2].what = "clicked"
    /\ events[3].what = "error" /\ events[4].what = "clicked"

\* ------------------------------------------------- sequential attempts
AttemptStarts == pc = "web" /\ pc' = "page"
MessagesInTurn == InMessage => Len(results) = i - 1

\* C26: link attempts are strictly sequential: at most one browsing context
\* is open at any point, a link attempt starts only when the context of the
\* previous attempt has been closed, and a message is worked on only when
\* every earlier message has its result.
C26_AttemptsSequential ==
    /\ [](contexts <= 1 /\ MessagesInTurn)
    /\ [][AttemptStarts => contexts = 0]_vars

\* ------------------------------------------------- label consistency
\* C27: when the learned list of a link's domain holds the pattern label
\* that record_link_pattern_result gives the link's path, the prioritizer
\* gives the link a learned score (above 10); this for every label, 'opt-out'
\* given to an 'optout' path and 'preferences' given to a 'settings' path
\* included.
C27_LabelGivesLearnedScore ==
    Ranked =>
        \A n \in 1..Len(link_priorities) :
            LET e == link_priorities[n] IN
            (~e.q.err /\ PatternOf(e.link) \in Labels(e.q.best)) =>
                e.priority > 10

\* ------------------------------------------------- bookkeeping after the batch
NoRecords ==
    /\ attempt_records = <<>>
    /\ subscriptions = <<>>
    /\ ledger_calls = <<>>
    /\ ledger = EmptyLedger

\* C28: bookkeeping is written only after the whole batch returned: while
\* the batch runs there is no attempt record, no subscription row and no
\* ledger record, records exist only when every message has its result, and
\* a batch that raised leaves no record, also for the messages that had
\* succeeded.
C28_RecordsAfterBatch ==
    /\ pc \notin {"book", "done"} => NoRecords
    /\ ~NoRecords => (i > Len(emails) /\ Len(results) = Len(emails))
    /\ pc = "raised" => NoRecords

\* a batch with a ledger handle raised after a message had succeeded
C28_Witness ==
    /\ pc = "raised"
    /\ db
    /\ \E n \in 1..Len(results) : results[n].success
    /\ NoRecords

\* ------------------------------------------------- subscription status
Recorded == Len(attempt_records') = Len(attempt_records) + 1
LastRecord == attempt_records'[Len(attempt_records')]
Status(subs, n) == subs[n].unsubscribe_status
StatusStep ==
    /\ Len(subscriptions') >= Len(subscriptions)
    /\ \A n \in 1..Len(subscriptions) :
          /\ Status(subscriptions, n) = "unsubscribed" =>
                 Status(subscriptions', n) = "unsubscribed"
          /\ Status(subscriptions', n) # Status(subscriptions, n) =>
                 /\ Status(subscriptions, n) = "active"
                 /\ Status(subscriptions', n) = "unsubscribed"
                 /\ Recorded
                 /\ LastRecord.success
                 /\ LastRecord.subscription_id = n
    /\ (Recorded /\ ~LastRecord.success) =>
          \A n \in 1..Len(subscriptions) : subscriptions'[n] = subscriptions[n]

\* C29: over any sequence of calls a subscription's status changes only from
\* 'active' to 'unsubscribed' and only in a record_unsubscribe_attempt call
\* with success true for that subscription; a failed attempt leaves the
\* status and the unsubscribed date as they were; an 'unsubscribed'
\* subscription never becomes 'active' again.
C29_StatusOnlyToUnsubscribed ==
    /\ [](\A n \in 1..Len(subscriptions) :
             Status(subscriptions, n) \in {"active", "unsubscribed"})
    /\ [][StatusStep]_vars

\* a failed attempt was recorded for a subscription after a successful one:
\* the subscription is 'unsubscribed' with the date of the successful one
C29_Witness ==
    \E a, b \in 1..Len(attempt_records) :
        /\ a < b
        /\ attempt_records[a].success
        /\ ~attempt_records[b].success
        /\ attempt_records[a].subscription_id = attempt_records[b].subscription_id
        /\ attempt_records[a].subscription_id \in 1..Len(subscriptions)
        /\ LET sub == subscriptions[attempt_records[a].subscription_id] IN
              /\ sub.unsubscribe_status = "unsubscribed"
              /\ sub.unsubscribed_date = attempt_records[a].attempt_date

\* ---------------------------------------------------------- the scan loop
RecordedIds == {attempt_records[n].email_id : n \in 1..Len(attempt_records)}
Passed == {<<b, n>> : b \in 1..Len(batches), n \in 1..MaxInbox}
PassedId(x) == IF x[2] <= Len(batches[x[1]]) THEN batches[x[1]][x[2]] ELSE 0
BatchStep ==
    Len(batches') > Len(batches) =>
        \A n \in 1..Len(batches'[Len(batches')]) :
            batches'[Len(batches')][n] \notin RecordedIds

\* C30: in the scan loop a message id with a recorded attempt, successful or
\* failed, is filtered out of every later scan: the list shown for approval
\* holds no recorded id, a batch is never passed a recorded id, and no id is
\* passed to a batch twice.
C30_RecordedNeverRescanned ==
    /\ [](/\ pc \in {"approve", "process"} =>
                \A n \in 1..Len(emails) : emails[n].id \notin RecordedIds
          /\ \A x, y \in Passed :
                (x # y /\ PassedId(x) # 0) => PassedId(x) # PassedId(y))
    /\ [][BatchStep]_vars

\* a later scan listed a message whose attempt had failed, the filter removed
\* it, and a second batch was passed other messages
C30_Witness ==
    /\ Len(batches) = 2
    /\ \E n \in 1..Len(attempt_records) :
          /\ ~attempt_records[n].success
          /\ attempt_records[n].email_id \in {batches[1][m] :
                                                   m \in 1..Len(batches[1])}
          /\ attempt_records[n].email_id \in {messages[m] :
                                                   m \in 1..Len(messages)}
          /\ attempt_records[n].email_id \notin {batches[2][m] :
                                                   m \in 1..Len(batches[2])}

====
